---- MODULE Spec2Model ----
(***************************************************************************)
(* MYCA course planner: the requirement catalog (src/src/catalog.rs), the  *)
(* temporal model and the schedule-enumeration engine                      *)
(* (src/src/schedule.rs) and the command line driver (src/src/bin/main.rs).*)
(***************************************************************************)
EXTENDS Integers, Sequences, FiniteSets, TLC

VARIABLES
    catalog,        \* Catalog.courses: CourseID -> Course
    hashOrder,      \* iteration order of the HashSet<CourseID> groups
    schedules,      \* main: the current candidate schedules (Vec<Schedule>)
    pc,             \* position of the driver
    argc,           \* number of course arguments on the command line
    nargs,          \* number of course arguments consumed by main's loop
    lastArg,        \* the course argument handled last
    prevSchedules,  \* the candidate schedules before the last argument
    perSchedule,    \* get_schedules: the mapped results, before flatten
    tryIn,          \* arguments of the last try_add call
    tryOut,         \* result of the last try_add call
    nadds,          \* number of Catalog::add_course calls made
    prevCatalog,    \* the catalog before the last Catalog::add_course
    lastAdded,      \* the record passed to the last Catalog::add_course
    libIn,          \* the library function called directly, and its arguments
    libOut          \* what that call returned

\* the state of the planner and of the catalog under construction
mainVars == <<catalog, hashOrder, schedules, pc, argc, nargs, lastArg,
              prevSchedules, perSchedule, tryIn, tryOut, nadds, prevCatalog,
              lastAdded>>

\* the state of a direct call of a library function
libVars == <<libIn, libOut>>

vars == <<mainVars, libVars>>

(***************************************************************************)
(* Bounds                                                                  *)
(***************************************************************************)
NumSems == 2        \* semesters of the planning horizon
MaxArgs == 2        \* course arguments on the command line
MaxAdds == 2        \* Catalog::add_course / emplace_course calls
MaxGroups == 2      \* requirement groups in one catalog document
MaxCandidates == 8  \* candidate schedules a further course is added to
MaxYear == 1        \* the latest of the small years of the semesters compared

Listing == <<"A", "B", "C">>    \* the CourseIDs in play, in listing order
IDs == {Listing[i] : i \in DOMAIN Listing}

\* Option<T>: None is the empty tuple, Some(v) the one-element tuple
None == <<>>
Some(v) == <<v>>
is_some(o) == Len(o) = 1
is_none(o) == Len(o) = 0
unwrap(o) == o[1]

(***************************************************************************)
(* Sequence helpers                                                        *)
(***************************************************************************)
Range(s) == {s[i] : i \in DOMAIN s}

RECURSIVE Flatten(_)
\* Iterator::flatten over a sequence of sequences: the concatenation of its
\* elements in order (computed by halves)
Flatten(ss) ==
    IF Len(ss) = 0 THEN <<>>
    ELSE IF Len(ss) = 1 THEN ss[1]
    ELSE LET half == Len(ss) \div 2
         IN  Flatten(SubSeq(ss, 1, half)) \o Flatten(SubSeq(ss, half + 1, Len(ss)))

\* a sequence back to front
Reverse(s) == [i \in DOMAIN s |-> s[Len(s) + 1 - i]]

\* the iteration orders of the HashSets: a group of two courses is iterated
\* in either order
HashOrders == {Listing, Reverse(Listing)}

\* the elements of a HashSet in the order its iterator yields them
iter(set, ord) == SelectSeq(ord, LAMBDA x : x \in set)

(***************************************************************************)
(* Course and Catalog  (src/src/catalog.rs)                                *)
(***************************************************************************)
\* Course::new
Course_new(coid) ==
    [complete |-> TRUE, name |-> "", description |-> "", coid |-> coid,
     prereqs |-> <<>>, coreqs |-> <<>>, post_options |-> {}]

\* Course::add_postoption
add_postoption(course, coid) ==
    [course EXCEPT !.post_options = @ \cup {coid}]

\* Catalog::new
Catalog_new == [k \in {} |-> Course_new(k)]

\* HashMap::insert
map_insert(map, key, value) ==
    [k \in DOMAIN map \cup {key} |-> IF k = key THEN value ELSE map[k]]

\* HashMap::remove
map_remove(map, key) == [k \in DOMAIN map \ {key} |-> map[k]]

\* a mutant of Catalog::get_course: an unknown course is looked up as a
\* course without requirements
get_course_or_placeholder(cat, coid) ==
    Some(IF coid \in DOMAIN cat THEN cat[coid] ELSE Course_new(coid))

\* Catalog::get_course
get_course(cat, coid) == IF coid \in DOMAIN cat THEN Some(cat[coid]) ELSE None

\* the loop body of Catalog::add_course for one prerequisite: a mutant that
\* creates no placeholder
register_prereq_no_placeholder(cat, coid) ==
    IF coid \in DOMAIN cat
    THEN [cat EXCEPT ![coid] = add_postoption(@, coid)]
    ELSE cat

\* the loop body of Catalog::add_course for one prerequisite
register_prereq(cat, coid) ==
    IF coid \in DOMAIN cat
    THEN [cat EXCEPT ![coid] = add_postoption(@, coid)]
    ELSE map_insert(cat, coid, add_postoption(Course_new(coid), coid))

RECURSIVE register_prereqs(_, _)
\* the loop of Catalog::add_course over course.prereqs.iter().flatten()
register_prereqs(cat, coids) ==
    IF coids = <<>> THEN cat
    ELSE register_prereqs(register_prereq(cat, Head(coids)), Tail(coids))

\* a mutant of the members add_course registers: those of the corequisite
\* groups too
flat_prereqs_and_coreqs(course, ord) ==
    Flatten([i \in DOMAIN course.prereqs |-> iter(course.prereqs[i], ord)])
        \o Flatten([i \in DOMAIN course.coreqs |-> iter(course.coreqs[i], ord)])

\* course.prereqs.iter().flatten(): the members of all groups, group by group
flat_prereqs(course, ord) ==
    Flatten([i \in DOMAIN course.prereqs |-> iter(course.prereqs[i], ord)])

\* the first branch of Catalog::add_course: a mutant that keeps the
\* post_options of the incoming record
inherit_post_options_dropped(cat, course) == course

\* the first branch of Catalog::add_course: an existing key hands its
\* post_options to the incoming record
inherit_post_options(cat, course) ==
    IF course.coid \in DOMAIN cat
    THEN [course EXCEPT !.post_options = cat[course.coid].post_options]
    ELSE course

\* Catalog::add_course
Catalog_add_course(cat, course, ord) ==
    LET c1   == inherit_post_options(cat, course)
        cat1 == IF course.coid \in DOMAIN cat
                THEN map_remove(cat, course.coid) ELSE cat
        cat2 == register_prereqs(cat1, flat_prereqs(c1, ord))
    IN  map_insert(cat2, c1.coid, c1)

\* Catalog::emplace_course
emplace_course(cat, coid, ord) == Catalog_add_course(cat, Course_new(coid), ord)

RECURSIVE parse_catalog(_, _, _)
\* parse_catalog of main.rs: add_course for every record of the document,
\* starting from cat
parse_catalog(cat, courses, ord) ==
    IF courses = <<>> THEN cat
    ELSE parse_catalog(Catalog_add_course(cat, Head(courses), ord),
                       Tail(courses), ord)

\* all members of all prerequisite groups of a course
prereq_members(course) == UNION Range(course.prereqs)

\* all members of all corequisite groups of a course
coreq_members(course) == UNION Range(course.coreqs)

(***************************************************************************)
(* SemTime, Semester, Schedule  (src/src/schedule.rs)                      *)
(***************************************************************************)
Fall(year) == [season |-> "Fall", year |-> year]
Spring(year) == [season |-> "Spring", year |-> year]
Summer(year) == [season |-> "Summer", year |-> year]

\* a mutant of the season numbers: the order of declaration of the enum
season_of_declared(t) ==
    CASE t.season = "Fall"   -> 0
      [] t.season = "Spring" -> 1
      [] t.season = "Summer" -> 2

\* the season numbers of SemTime::partial_cmp
season_of(t) ==
    CASE t.season = "Spring" -> 0
      [] t.season = "Summer" -> 1
      [] t.season = "Fall"   -> 2

\* i32::partial_cmp
int_cmp(a, b) == IF a < b THEN "Less" ELSE IF a > b THEN "Greater" ELSE "Equal"

\* SemTime::partial_cmp (and cmp, which unwraps it)
partial_cmp(self, other) ==
    IF self = other THEN "Equal"
    ELSE IF self.year # other.year THEN int_cmp(self.year, other.year)
    ELSE int_cmp(season_of(self), season_of(other))

\* a mutant of the `time < sem` filter of try_add: the target semester counts
time_before_or_at(time, sem) == partial_cmp(time, sem) # "Greater"

\* the `time < sem` filter of try_add
time_before(time, sem) == partial_cmp(time, sem) = "Less"

RECURSIVE btree_keys_descending(_)
\* a mutant of the BTreeMap iteration: the latest key first
btree_keys_descending(T) ==
    IF T = {} THEN <<>>
    ELSE LET m == CHOOSE t \in T : \A u \in T : partial_cmp(t, u) # "Less"
         IN  <<m>> \o btree_keys_descending(T \ {m})

RECURSIVE btree_keys(_)
\* the keys of a BTreeMap<SemTime, _> in the order its iterator yields them
btree_keys(T) ==
    IF T = {} THEN <<>>
    ELSE LET m == CHOOSE t \in T : \A u \in T : partial_cmp(t, u) # "Greater"
         IN  <<m>> \o btree_keys(T \ {m})

\* Semester::new
Semester_new(time) == [courses |-> {}, time |-> time]

\* a mutant of Semester::add_course: the course replaces those of the semester
Semester_add_course_replacing(semester, coid) ==
    [semester EXCEPT !.courses = {coid}]

\* Semester::add_course
Semester_add_course(semester, coid) ==
    [semester EXCEPT !.courses = @ \cup {coid}]

\* Semester::contains
Semester_contains(semester, coid) == coid \in semester.courses

\* Schedule::new
Schedule_new == [semesters |-> [t \in {} |-> Semester_new(t)]]

\* Schedule::add_semester
add_semester(sched, sem) ==
    [sched EXCEPT !.semesters = map_insert(@, sem.time, sem)]

\* a mutant of Schedule::add_course: the schedule afterwards has the semester
\* of the course only
Schedule_add_course_only(sched, sem, coid) ==
    [semesters |->
        [t \in {sem} \cap DOMAIN sched.semesters |->
            Semester_add_course(sched.semesters[t], coid)]]

\* Schedule::add_course: the schedule afterwards (the boolean is
\* add_course_ok)
Schedule_add_course(sched, sem, coid) ==
    IF sem \in DOMAIN sched.semesters
    THEN [sched EXCEPT !.semesters[sem] = Semester_add_course(@, coid)]
    ELSE sched

\* Schedule::add_course: the returned boolean
add_course_ok(sched, sem) == sem \in DOMAIN sched.semesters

\* Schedule::get_time
get_time(sched, coid) ==
    LET hits == SelectSeq(btree_keys(DOMAIN sched.semesters),
                          LAMBDA t : Semester_contains(sched.semesters[t], coid))
    IN  IF hits = <<>> THEN None ELSE Some(Head(hits))

\* Schedule::contains
contains(sched, coid) == is_some(get_time(sched, coid))

\* the semesters of a schedule that hold a course
times_of(sched, coid) ==
    {t \in DOMAIN sched.semesters : coid \in sched.semesters[t].courses}

\* the courses of a schedule
courses_of(sched) ==
    UNION {sched.semesters[t].courses : t \in DOMAIN sched.semesters}

(***************************************************************************)
(* The enumeration engine  (src/src/schedule.rs)                           *)
(***************************************************************************)
\* a mutant of the inner loop of try_add: the first scheduled member of the
\* group decides
coreq_scan_first_scheduled(sched, coreqs, sem, flags) ==
    LET found == SelectSeq(coreqs, LAMBDA c : \E t \in DOMAIN sched.semesters :
                                                 c \in sched.semesters[t].courses)
    IN  IF found = <<>> THEN flags
        ELSE <<TRUE, \E t \in DOMAIN sched.semesters :
                         t = sem /\ Head(found) \in sched.semesters[t].courses>>

RECURSIVE coreq_scan(_, _, _, _)
\* the inner loop of try_add over one corequisite group; flags is
\* <<contains_at_least_one, valid_time>>
coreq_scan(sched, coreqs, sem, flags) ==
    IF coreqs = <<>> THEN flags
    ELSE LET time == get_time(sched, Head(coreqs))
         IN  IF is_some(time)
             THEN IF unwrap(time) = sem
                  THEN <<TRUE, TRUE>>
                  ELSE coreq_scan(sched, Tail(coreqs), sem, <<TRUE, flags[2]>>)
             ELSE coreq_scan(sched, Tail(coreqs), sem, flags)

\* a mutant of try_add's corequisite test: every group passes
coreq_set_unchecked(sched, coreq_set, sem, ord) == TRUE

\* try_add: one corequisite group passes
coreq_set_ok(sched, coreq_set, sem, ord) ==
    LET flags == coreq_scan(sched, iter(coreq_set, ord), sem, <<FALSE, FALSE>>)
    IN  flags[1] = flags[2]

\* a mutant of try_add's prerequisite test: every group passes
prereq_set_unchecked(sched, prereq_set, sem) == TRUE

\* a mutant of try_add's prerequisite test: every member of the group has to
\* be in an earlier semester
prereq_set_all_members(sched, prereq_set, sem) ==
    \A prereq \in prereq_set :
        \E time \in DOMAIN sched.semesters :
            /\ time_before(time, sem)
            /\ Semester_contains(sched.semesters[time], prereq)

\* a mutant of try_add's prerequisite test: a member of the group is in the
\* schedule, in whatever semester
prereq_set_scheduled(sched, prereq_set, sem) ==
    \E prereq \in prereq_set :
        \E time \in DOMAIN sched.semesters :
            Semester_contains(sched.semesters[time], prereq)

\* try_add: one prerequisite group passes
prereq_set_ok(sched, prereq_set, sem) ==
    \E prereq \in prereq_set :
        \E time \in DOMAIN sched.semesters :
            /\ time_before(time, sem)
            /\ Semester_contains(sched.semesters[time], prereq)

\* a mutant of try_add's first test: a course already scheduled is added again
already_scheduled_ignored(sched, coid) == FALSE

\* try_add's first test: the course is already scheduled
already_scheduled(sched, coid) == contains(sched, coid)

\* Schedule::try_add for a course that is not scheduled yet; the result is
\* tagged Some / None / Panic (the unwrap of a failed catalog lookup)
try_add_unscheduled(sched, coid, sem, cat, ord) ==
    IF is_none(get_course(cat, coid)) THEN [tag |-> "Panic"]
    ELSE LET course == unwrap(get_course(cat, coid))
         IN  IF \E i \in DOMAIN course.coreqs :
                    ~coreq_set_ok(sched, course.coreqs[i], sem, ord)
             THEN [tag |-> "None"]
             ELSE IF \E i \in DOMAIN course.prereqs :
                        ~prereq_set_ok(sched, course.prereqs[i], sem)
             THEN [tag |-> "None"]
             ELSE [tag |-> "Some",
                   value |-> Schedule_add_course(sched, sem, coid)]

\* a mutant of Schedule::try_add: a course already scheduled is rejected
try_add_rejecting(sched, coid, sem, cat, ord) ==
    IF already_scheduled(sched, coid) THEN [tag |-> "None"]
    ELSE try_add_unscheduled(sched, coid, sem, cat, ord)

\* Schedule::try_add
try_add(sched, coid, sem, cat, ord) ==
    IF already_scheduled(sched, coid) THEN [tag |-> "Some", value |-> sched]
    ELSE try_add_unscheduled(sched, coid, sem, cat, ord)

\* the outcome of a call: it returns a value, it panics, or it recurses
\* without bound and never returns
Ok(v) == [tag |-> "Ok", value |-> v]
Panic == [tag |-> "Panic"]

\* a mutant of the unbounded recursion: a call made again with the arguments
\* of a call in progress is cut off and returns no schedule
recursion_cut_off == [tag |-> "Ok", value |-> <<>>]

\* a call that recurses without bound
Unbounded == [tag |-> "Unbounded"]

\* a sequence of calls made one after the other, each returning a vector: the
\* first call that does not return decides, otherwise the vectors are appended
in_sequence(outs) ==
    LET bad == SelectSeq(outs, LAMBDA o : o.tag # "Ok")
    IN  IF bad # <<>> THEN Head(bad)
        ELSE Ok(Flatten([i \in DOMAIN outs |-> outs[i].value]))

\* what follows a call is only run when the call returned
and_then(out, rest(_)) == IF out.tag # "Ok" THEN out ELSE rest(out.value)

\* a mutant of the self-placement loop: the schedule is kept as it is
place_self_kept(coid, sched, cat, ord) == Ok(<<sched>>)

\* the self-placement loop of add_course_to_schedule for one schedule
place_self(coid, sched, cat, ord) ==
    LET times  == btree_keys(DOMAIN sched.semesters)
        tried  == [i \in DOMAIN times |-> try_add(sched, coid, times[i], cat, ord)]
        pushed == SelectSeq(tried, LAMBDA r : r.tag = "Some")
    IN  IF \E i \in DOMAIN tried : tried[i].tag = "Panic" THEN Panic
        ELSE Ok([i \in DOMAIN pushed |-> pushed[i].value])

\* a mutant of the member loop of add_course_to_schedule: only the first
\* member of a group is tried
first_member(req_set, ord) == SubSeq(iter(req_set, ord), 1, 1)

\* the member loop of add_course_to_schedule: `for prereq in prereq_set`,
\* `for coreq in coreq_set`
members_of(req_set, ord) == iter(req_set, ord)

\* a mutant of the catalog lookup of add_course_to_schedule: an unknown course
\* goes on as a course without requirements
match_course_unchecked(cat, coid) ==
    Some(IF coid \in DOMAIN cat THEN cat[coid] ELSE Course_new(coid))

\* the catalog lookup add_course_to_schedule starts with
match_course(cat, coid) == get_course(cat, coid)

\* a mutant of the else branch of the requirement loops: a schedule that
\* already holds the requirement contributes nothing
pass_through_dropped(schedule) == <<>>

\* the else branch of the requirement loops of add_course_to_schedule:
\* `curr_set.push(schedule.clone())`
pass_through(schedule) == <<schedule>>

\* a mutant of the test of the requirement loops: a requirement is expanded
\* whether or not the schedule holds it
not_scheduled_unchecked(schedule, req) == TRUE

\* the test of the requirement loops of add_course_to_schedule:
\* `if !schedule.contains(prereq)`, `if !schedule.contains(coreq)`
not_scheduled(schedule, req) == ~contains(schedule, req)

RECURSIVE add_course_to_schedule(_, _, _, _, _)
RECURSIVE expand_sets(_, _, _, _, _)

\* the requirement loops of add_course_to_schedule (lines 443-459 for the
\* prerequisites, 472-488 for the corequisites): req_sets are the groups
\* still to handle, scheds the working vector, active the calls in progress
expand_sets(req_sets, scheds, cat, ord, active) ==
    IF req_sets = <<>> THEN Ok(scheds)
    ELSE LET members  == members_of(Head(req_sets), ord)
             one(req, schedule) ==
                 IF not_scheduled(schedule, req)
                 THEN add_course_to_schedule(req, schedule, cat, ord, active)
                 ELSE Ok(pass_through(schedule))
             for_req(req) == [j \in DOMAIN scheds |-> one(req, scheds[j])]
         IN  and_then(
                 in_sequence(Flatten([i \in DOMAIN members |-> for_req(members[i])])),
                 LAMBDA curr_set : expand_sets(Tail(req_sets), curr_set, cat, ord, active))

\* Schedule::add_course_to_schedule; active holds the arguments of the calls
\* of add_course_to_schedule in progress: the function is deterministic, so a
\* call made again with the arguments of a call in progress recurses without
\* bound
add_course_to_schedule(coid, sched, cat, ord, active) ==
    IF <<coid, sched>> \in active THEN Unbounded
    ELSE IF is_none(match_course(cat, coid)) THEN Ok(<<>>)
    ELSE LET course == unwrap(match_course(cat, coid))
             below  == active \cup {<<coid, sched>>}
             place(prereq_scheds) ==
                 in_sequence([i \in DOMAIN prereq_scheds |->
                                 place_self(coid, prereq_scheds[i], cat, ord)])
         IN  and_then(
                 expand_sets(course.prereqs, <<sched>>, cat, ord, below),
                 LAMBDA prereq_scheds :
                     and_then(
                         place(prereq_scheds),
                         LAMBDA prereq_and_this_scheds :
                             expand_sets(course.coreqs, prereq_and_this_scheds,
                                         cat, ord, below)))

\* a mutant of the map of get_schedules: without a schedule to map over, the
\* course is added to a schedule of one empty semester
map_schedules_restarting(coid, cat, scheds, ord) ==
    LET from  == IF scheds = <<>>
                 THEN <<add_semester(Schedule_new, Semester_new(Fall(0)))>>
                 ELSE scheds
        calls == [i \in DOMAIN from |->
                     add_course_to_schedule(coid, from[i], cat, ord, {})]
        bad   == SelectSeq(calls, LAMBDA o : o.tag # "Ok")
    IN  IF bad # <<>> THEN Head(bad)
        ELSE Ok([i \in DOMAIN calls |-> calls[i].value])

\* get_schedules: schedules.iter().map(add_course_to_schedule), the vector
\* each call returned unless one of the calls did not return
map_schedules(coid, cat, scheds, ord) ==
    LET calls == [i \in DOMAIN scheds |->
                     add_course_to_schedule(coid, scheds[i], cat, ord, {})]
        bad   == SelectSeq(calls, LAMBDA o : o.tag # "Ok")
    IN  IF bad # <<>> THEN Head(bad)
        ELSE Ok([i \in DOMAIN calls |-> calls[i].value])

\* get_schedules
get_schedules(coid, cat, scheds, ord) ==
    and_then(map_schedules(coid, cat, scheds, ord), LAMBDA per : Ok(Flatten(per)))

(***************************************************************************)
(* Inputs                                                                  *)
(***************************************************************************)
\* the default planning horizon (get_schedules of src/src/lib.rs)
Template ==
    <<Fall(0), Spring(1), Fall(1), Spring(2), Summer(2), Fall(2), Fall(3),
      Spring(4)>>

\* the position of a CourseID in the listing order
Rank == [id \in IDs |-> CHOOSE n \in DOMAIN Listing : Listing[n] = id]

\* a schedule of the first k template semesters; place[id] is the number of
\* the semester holding id, 0 when id is not scheduled
schedule_of(k, place) ==
    [semesters |->
        [t \in {Template[i] : i \in 1..k} |->
            [courses |-> {id \in IDs : place[id] # 0 /\ Template[place[id]] = t},
             time |-> t]]]

\* the schedule documents load_schedules reads: one schedule of NumSems
\* semesters, every course in at most one of them
ScheduleFiles ==
    {<<schedule_of(NumSems, place)>> : place \in [IDs -> 0..NumSems]}

\* load_schedules of main.rs: the schedules of the document, or one empty
\* schedule when there is none
load_schedules == {<<Schedule_new>>} \cup ScheduleFiles

\* the requirement lists (Vec<HashSet<CourseID>>) over a set of courses: no
\* group, one group, or two one-member groups
GroupLists(S) ==
    {<<>>} \cup {<<g>> : g \in SUBSET S \ {{}}}
           \cup {<<{p[1]}, {p[2]}>> : p \in {q \in S \X S : Rank[q[1]] < Rank[q[2]]}}

\* the course records of the catalog documents the planner is run on:
\* prerequisites refer to courses listed earlier (no prerequisite cycle)
PlanRecords(id) ==
    {[Course_new(id) EXCEPT !.prereqs = pre, !.coreqs = co] :
        pre \in GroupLists({x \in IDs : Rank[x] < Rank[id]}),
        co \in {l \in GroupLists(IDs \ {id}) : Len(l) <= 1}}

RECURSIVE SumLen(_)
SumLen(ss) == IF ss = <<>> THEN 0 ELSE Len(Head(ss)) + SumLen(Tail(ss))

\* the number of requirement groups of a catalog document
groups_in(f) ==
    SumLen([i \in DOMAIN f |-> f[i].prereqs]) + SumLen([i \in DOMAIN f |-> f[i].coreqs])

\* the catalog documents: at most one record per CourseID, in listing order,
\* at most MaxGroups requirement groups, and a record for every course named
\* as a prerequisite (a course without a record is unknown to the planner,
\* or named as a corequisite only)
CatalogFiles ==
    {f \in UNION {[1..n -> UNION {PlanRecords(id) : id \in IDs}] :
                     n \in 0..Cardinality(IDs)} :
        /\ \A i \in DOMAIN f : \A j \in DOMAIN f :
               i < j => Rank[f[i].coid] < Rank[f[j].coid]
        /\ groups_in(f) <= MaxGroups
        /\ \A i \in DOMAIN f :
               prereq_members(f[i]) \subseteq {f[j].coid : j \in DOMAIN f}}

\* the target semesters try_add is called with: those of the horizon and
\* one beyond it
TargetTimes == {Template[i] : i \in 1..(NumSems + 1)}

unparseable == "unparseable"    \* an argument CourseID::from rejects
not_called == [tag |-> "NotCalled"]

(***************************************************************************)
(* The planner: main of src/src/bin/main.rs after the catalog is parsed    *)
(***************************************************************************)
\* main before its loop, with n course arguments and the schedules loaded
main_start(n, loaded) ==
    /\ hashOrder \in HashOrders
    /\ \E f \in CatalogFiles : catalog = parse_catalog(Catalog_new, f, hashOrder)
    /\ schedules \in loaded
    /\ pc = "args"
    /\ argc = n
    /\ nargs = 0
    /\ lastArg = unparseable
    /\ prevSchedules = <<>>
    /\ perSchedule = <<>>
    /\ tryIn = not_called
    /\ tryOut = not_called
    /\ nadds = 0
    /\ prevCatalog = Catalog_new
    /\ lastAdded = not_called
    /\ libIn = not_called
    /\ libOut = not_called

\* one course argument, on any loaded schedule
Init == main_start(1, load_schedules)

\* main's loop body for an argument that parses to coid; a call that does not
\* return ends the loop with pc at "Panic" or "Unbounded"
CourseArg(coid) ==
    /\ pc = "args"
    /\ nargs < argc
    /\ Len(schedules) <= MaxCandidates
    /\ \E mapped \in {map_schedules(coid, catalog, schedules, hashOrder)} :
           IF mapped.tag = "Ok"
           THEN /\ perSchedule' = mapped.value
                /\ schedules' = Flatten(perSchedule')
                /\ pc' = pc
           ELSE /\ perSchedule' = <<>>
                /\ schedules' = schedules
                /\ pc' = mapped.tag
    /\ prevSchedules' = schedules
    /\ lastArg' = coid
    /\ nargs' = nargs + 1
    /\ UNCHANGED <<catalog, hashOrder, argc, tryIn, tryOut, nadds,
                   prevCatalog, lastAdded>>
    /\ UNCHANGED libVars

\* a mutant of main's loop body for an argument CourseID::from rejects: the
\* loop is left
BadArg_break ==
    /\ pc = "args"
    /\ nargs < argc
    /\ prevSchedules' = schedules
    /\ perSchedule' = <<>>
    /\ lastArg' = unparseable
    /\ nargs' = nargs + 1
    /\ pc' = "output"
    /\ UNCHANGED <<catalog, hashOrder, schedules, argc, tryIn, tryOut,
                   nadds, prevCatalog, lastAdded>>
    /\ UNCHANGED libVars

\* main's loop body for an argument CourseID::from rejects: `continue`
BadArg ==
    /\ pc = "args"
    /\ nargs < argc
    /\ prevSchedules' = schedules
    /\ perSchedule' = <<>>
    /\ lastArg' = unparseable
    /\ nargs' = nargs + 1
    /\ UNCHANGED <<catalog, hashOrder, schedules, pc, argc, tryIn, tryOut,
                   nadds, prevCatalog, lastAdded>>
    /\ UNCHANGED libVars

\* one call of Schedule::try_add on a loaded schedule
TryAdd(sched, coid, sem) ==
    /\ pc = "args"
    /\ nargs = 0
    /\ tryIn' = [tag |-> "Called", sched |-> sched, coid |-> coid, sem |-> sem]
    /\ tryOut' = try_add(sched, coid, sem, catalog, hashOrder)
    /\ pc' = "try_add"
    /\ UNCHANGED <<catalog, hashOrder, schedules, argc, nargs, lastArg,
                   prevSchedules, perSchedule, nadds, prevCatalog, lastAdded>>
    /\ UNCHANGED libVars

Next ==
    \/ \E coid \in IDs : CourseArg(coid)
    \/ BadArg
    \/ \E sched \in Range(schedules) : \E coid \in IDs :
           \E sem \in TargetTimes : TryAdd(sched, coid, sem)

Spec == Init /\ [][Next]_vars

\* the schedules main starts from when no schedule document is given: the
\* empty schedule of load_schedules, or the empty planning horizon
empty_schedules == {<<Schedule_new>>, <<schedule_of(NumSems, [id \in IDs |-> 0])>>}

\* MaxArgs course arguments, starting from a schedule without courses
InitChain == main_start(MaxArgs, empty_schedules)

NextChain ==
    \/ \E coid \in IDs : CourseArg(coid)
    \/ BadArg

SpecChain == InitChain /\ [][NextChain]_vars

\* the schedule documents with every course in the first semester, in the
\* last one or in none
EdgeSchedules ==
    {<<schedule_of(NumSems, place)>> : place \in [IDs -> {0, 1, NumSems}]}

\* one course argument, on a schedule of these documents
InitEdge == main_start(1, EdgeSchedules)

NextEdge ==
    \/ \E coid \in IDs : CourseArg(coid)
    \/ BadArg

SpecEdge == InitEdge /\ [][NextEdge]_vars

(***************************************************************************)
(* The planner on catalogs whose prerequisites may refer to any course,    *)
(* the course itself included                                              *)
(***************************************************************************)
\* the course records of these documents: prerequisite groups over all
\* courses, no corequisites
CyclicRecords(id) ==
    {[Course_new(id) EXCEPT !.prereqs = pre] : pre \in GroupLists(IDs)}

\* the catalog documents: one record per CourseID, in listing order, and at
\* most MaxGroups + 1 prerequisite groups
CyclicFiles ==
    {f \in {<<r1, r2, r3>> : r1 \in CyclicRecords(Listing[1]),
                             r2 \in CyclicRecords(Listing[2]),
                             r3 \in CyclicRecords(Listing[3])} :
        groups_in(f) <= MaxGroups + 1}

\* the schedules loaded: the empty schedule, or the planning horizon with
\* some courses in its first semester
CyclicSchedules ==
    {<<Schedule_new>>}
        \cup {<<schedule_of(NumSems, place)>> : place \in [IDs -> 0..1]}

\* main before its loop, with one course argument
InitCyclic ==
    /\ hashOrder \in HashOrders
    /\ \E f \in CyclicFiles : catalog = parse_catalog(Catalog_new, f, hashOrder)
    /\ schedules \in CyclicSchedules
    /\ pc = "args"
    /\ argc = 1
    /\ nargs = 0
    /\ lastArg = unparseable
    /\ prevSchedules = <<>>
    /\ perSchedule = <<>>
    /\ tryIn = not_called
    /\ tryOut = not_called
    /\ nadds = 0
    /\ prevCatalog = Catalog_new
    /\ lastAdded = not_called
    /\ libIn = not_called
    /\ libOut = not_called

NextCyclic ==
    \/ \E coid \in IDs : CourseArg(coid)
    \/ BadArg

SpecCyclic == InitCyclic /\ [][NextCyclic]_vars

(***************************************************************************)
(* Building the catalog: any sequence of Catalog::add_course and           *)
(* Catalog::emplace_course calls on an empty catalog                       *)
(***************************************************************************)
\* the CourseID listed after id (the first one after the last)
succ(id) == Listing[(Rank[id] % Len(Listing)) + 1]

\* the records add_course is called with: no or one prerequisite group over
\* all CourseIDs (the course itself included), and either empty forward data
\* or a name, a description, a corequisite group and a post_options entry
CourseInputs ==
    {[complete |-> TRUE, name |-> m.name, description |-> m.description,
      coid |-> id, prereqs |-> pre, coreqs |-> m.coreqs,
      post_options |-> m.post_options] :
        id \in IDs,
        pre \in {l \in GroupLists(IDs) : Len(l) <= 1},
        m \in {[name |-> "", description |-> "", coreqs |-> <<>>,
                post_options |-> {}],
               [name |-> "Intro", description |-> "text",
                coreqs |-> <<{Listing[1]}>>, post_options |-> {Listing[2]}]}}

InitCat ==
    /\ hashOrder \in HashOrders
    /\ catalog = Catalog_new
    /\ schedules = <<Schedule_new>>
    /\ pc = "catalog"
    /\ argc = 0
    /\ nargs = 0
    /\ lastArg = unparseable
    /\ prevSchedules = <<>>
    /\ perSchedule = <<>>
    /\ tryIn = not_called
    /\ tryOut = not_called
    /\ nadds = 0
    /\ prevCatalog = Catalog_new
    /\ lastAdded = not_called
    /\ libIn = not_called
    /\ libOut = not_called

\* Catalog::add_course(course)
AddCourse(course) ==
    /\ pc = "catalog"
    /\ nadds < MaxAdds
    /\ catalog' = Catalog_add_course(catalog, course, hashOrder)
    /\ prevCatalog' = catalog
    /\ lastAdded' = [tag |-> "Called", course |-> course]
    /\ nadds' = nadds + 1
    /\ UNCHANGED <<hashOrder, schedules, pc, argc, nargs, lastArg,
                   prevSchedules, perSchedule, tryIn, tryOut>>
    /\ UNCHANGED libVars

\* Catalog::emplace_course(coid)
EmplaceCourse(coid) ==
    /\ pc = "catalog"
    /\ nadds < MaxAdds
    /\ catalog' = emplace_course(catalog, coid, hashOrder)
    /\ prevCatalog' = catalog
    /\ lastAdded' = [tag |-> "Called", course |-> Course_new(coid)]
    /\ nadds' = nadds + 1
    /\ UNCHANGED <<hashOrder, schedules, pc, argc, nargs, lastArg,
                   prevSchedules, perSchedule, tryIn, tryOut>>
    /\ UNCHANGED libVars

NextCat ==
    \/ \E course \in CourseInputs : AddCourse(course)
    \/ \E coid \in IDs : EmplaceCourse(coid)

SpecCat == InitCat /\ [][NextCat]_vars

(***************************************************************************)
(* The planner on a catalog built by any sequence of Catalog::add_course   *)
(* calls: main of src/src/bin/main.rs from the parsing of the catalog on   *)
(***************************************************************************)
\* the records of the catalog document: no prerequisite group or one that
\* names the course itself or the next one, no corequisite group or one that
\* names the course before
LoadRecords(id) ==
    {[Course_new(id) EXCEPT !.prereqs = pre, !.coreqs = co] :
        pre \in {<<>>, <<{id}>>, <<{succ(id)}>>},
        co \in {<<>>, <<{succ(succ(id))}>>}}

\* the records Catalog::add_course is called with
LoadInputs == UNION {LoadRecords(id) : id \in IDs}

\* the schedules loaded: the planning horizon, empty or with one course in its
\* first semester
LoadedSchedules ==
    {<<schedule_of(NumSems, [id \in IDs |-> 0])>>}
        \cup {<<schedule_of(NumSems, [id \in IDs |-> IF id = x THEN 1 ELSE 0])>> :
                 x \in IDs}

\* main before parse_catalog, with one course argument
InitLoad ==
    /\ hashOrder \in HashOrders
    /\ catalog = Catalog_new
    /\ schedules = <<Schedule_new>>
    /\ pc = "catalog"
    /\ argc = 1
    /\ nargs = 0
    /\ lastArg = unparseable
    /\ prevSchedules = <<>>
    /\ perSchedule = <<>>
    /\ tryIn = not_called
    /\ tryOut = not_called
    /\ nadds = 0
    /\ prevCatalog = Catalog_new
    /\ lastAdded = not_called
    /\ libIn = not_called
    /\ libOut = not_called

\* parse_catalog returns and main loads the schedules
StartLoop(loaded) ==
    /\ pc = "catalog"
    /\ pc' = "args"
    /\ schedules' = loaded
    /\ UNCHANGED <<catalog, hashOrder, argc, nargs, lastArg, prevSchedules,
                   perSchedule, tryIn, tryOut, nadds, prevCatalog, lastAdded>>
    /\ UNCHANGED libVars

NextLoad ==
    \/ \E course \in LoadInputs : AddCourse(course)
    \/ \E loaded \in LoadedSchedules : StartLoop(loaded)
    \/ \E coid \in IDs : CourseArg(coid)
    \/ BadArg

SpecLoad == InitLoad /\ [][NextLoad]_vars

(***************************************************************************)
(* CourseID and its text form  (src/src/catalog.rs); a text is the         *)
(* sequence of its characters                                              *)
(***************************************************************************)
\* the ASCII characters of the texts, in runs of consecutive code points:
\* ' ' is 32, '+' 43, '-' 45, '0' 48, '@' 64, 'A' 65, '[' 91 and 'a' 97
AsciiRuns ==
    <<[first |-> 32, chars |-> <<" ">>],
      [first |-> 43, chars |-> <<"+">>],
      [first |-> 45, chars |-> <<"-">>],
      [first |-> 48,
       chars |-> <<"0", "1", "2", "3", "4", "5", "6", "7", "8", "9">>],
      [first |-> 64,
       chars |-> <<"@", "A", "B", "C", "D", "E", "F", "G", "H", "I", "J", "K",
                   "L", "M", "N", "O", "P", "Q", "R", "S", "T", "U", "V", "W",
                   "X", "Y", "Z", "[">>],
      [first |-> 97,
       chars |-> <<"a", "b", "c", "d", "e", "f", "g", "h", "i", "j", "k", "l",
                   "m", "n", "o", "p", "q", "r", "s", "t", "u", "v", "w", "x",
                   "y", "z">>]>>

\* the code point of a character, which `<` and `>` on char compare
code_point(c) ==
    LET run == CHOOSE r \in Range(AsciiRuns) : c \in Range(r.chars)
    IN  run.first + (CHOOSE i \in DOMAIN run.chars : run.chars[i] = c) - 1

\* char::to_digit(10) succeeds
is_digit(c) == code_point("0") <= code_point(c) /\ code_point(c) <= code_point("9")

\* the value of a decimal digit
digit_value(c) == code_point(c) - code_point("0")

\* the character of a decimal digit
digit_char(d) == CHOOSE c \in Range(AsciiRuns[4].chars) : digit_value(c) = d

RECURSIVE decimal_value(_)
\* the number a sequence of decimal digits writes
decimal_value(digits) ==
    IF digits = <<>> THEN 0
    ELSE decimal_value(SubSeq(digits, 1, Len(digits) - 1)) * 10
             + digit_value(digits[Len(digits)])

\* str::parse::<u16>: an optional '+' and then one decimal digit or more, of a
\* value that fits 16 bits; None stands for Err
parse_u16(src) ==
    IF src = <<>> THEN None
    ELSE LET digits == IF Head(src) = "+" THEN Tail(src) ELSE src
         IN  IF digits = <<>> THEN None
             ELSE IF \E i \in DOMAIN digits : ~is_digit(digits[i]) THEN None
             ELSE IF decimal_value(digits) >= 2^16 THEN None
             ELSE Some(decimal_value(digits))

RECURSIVE u16_to_string(_)
\* Display of a u16: its decimal digits, without padding
u16_to_string(n) ==
    IF n < 10 THEN <<digit_char(n)>>
    ELSE u16_to_string(n \div 10) \o <<digit_char(n % 10)>>

\* CourseID::new
CourseID_new(subj, code) == [subj |-> subj, code |-> code]

\* CourseID::from
CourseID_from(coid) ==
    LET char_vec == coid
        len      == Len(char_vec)
    IN  IF len # 8 /\ len # 9 THEN None
        ELSE LET code_str == SubSeq(char_vec, len - 3, len)
                 code     == parse_u16(code_str)
             IN  IF is_none(code) THEN None
                 ELSE IF \E i \in 1..4 :
                            \/ code_point(char_vec[i]) < code_point("A")
                            \/ code_point(char_vec[i]) > code_point("Z")
                 THEN None
                 ELSE Some(CourseID_new(SubSeq(char_vec, 1, 4), unwrap(code)))

\* Display for CourseID: "{} {}" of subj and code
CourseID_fmt(self) == self.subj \o <<" ">> \o u16_to_string(self.code)

(***************************************************************************)
(* Direct calls of the library: SemTime comparison, CourseID::from,        *)
(* format! of a CourseID and Schedule::add_course                          *)
(***************************************************************************)
\* PartialOrd::lt of SemTime: `a < b`
SemTime_lt(self, other) == partial_cmp(self, other) = "Less"

\* PartialEq::eq of SemTime (derived): `a == b`
SemTime_eq(self, other) == self = other

\* the years of the semesters compared
Years == (-1..MaxYear) \cup {2020, 2021}

SemTimes == UNION {{Fall(y), Spring(y), Summer(y)} : y \in Years}

\* the subjects: four capitals, or one character of "TEST" replaced
Subjects ==
    {<<"T", "E", "S", "T">>, <<"A", "B", "Y", "Z">>}
      \cup {[<<"T", "E", "S", "T">> EXCEPT ![i] = c] :
                i \in 1..4, c \in {"a", "@", "["}}

\* the last four characters of a text
CodeTexts ==
    [1..4 -> {"0", "7", "+", "x"}]
        \cup {<<"-", "0", "0", "7">>, <<" ", "1", "0", "0">>, <<"9", "9", "9", "9">>}

\* what stands between subject and code
Separators == {<<>>, <<" ">>, <<"0">>, <<" ", " ">>}

\* texts of other lengths: the beginnings of "TEST 1100"
ShortTexts ==
    {SubSeq(<<"T", "E", "S", "T", " ", "1", "1", "0", "0">>, 1, n) : n \in 0..7}

\* the texts CourseID::from is called with
Texts ==
    {sub \o sep \o code : sub \in Subjects, sep \in Separators, code \in CodeTexts}
        \cup ShortTexts

\* the valid CourseIDs that are formatted and parsed back
ValidIDs ==
    {CourseID_new(sub, code) :
        sub \in {<<"T", "E", "S", "T">>, <<"A", "B", "Y", "Z">>},
        code \in {0, 5, 10, 99, 100, 999, 1000, 1100, 9999}}

\* the direct calls
LibInputs ==
    {[tag |-> "cmp", a |-> a, b |-> b, c |-> c] :
        a \in SemTimes, b \in SemTimes, c \in SemTimes}
      \cup {[tag |-> "from", text |-> text] : text \in Texts}
      \cup {[tag |-> "format", id |-> id] : id \in ValidIDs}
      \cup {[tag |-> "add_course", sched |-> sched[1], time |-> time, coid |-> coid] :
               sched \in load_schedules, time \in TargetTimes, coid \in IDs}

InitLib ==
    /\ hashOrder = Listing
    /\ catalog = Catalog_new
    /\ schedules = <<Schedule_new>>
    /\ pc = "lib"
    /\ argc = 0
    /\ nargs = 0
    /\ lastArg = unparseable
    /\ prevSchedules = <<>>
    /\ perSchedule = <<>>
    /\ tryIn = not_called
    /\ tryOut = not_called
    /\ nadds = 0
    /\ prevCatalog = Catalog_new
    /\ lastAdded = not_called
    /\ libIn \in LibInputs
    /\ libOut = not_called

\* a, b and c compared with partial_cmp, `<` and `==`
Compare ==
    /\ libIn.tag = "cmp"
    /\ libOut = not_called
    /\ libOut' = [tag |-> "Returned",
                  ab |-> partial_cmp(libIn.a, libIn.b),
                  ba |-> partial_cmp(libIn.b, libIn.a),
                  lt_ab |-> SemTime_lt(libIn.a, libIn.b),
                  lt_ba |-> SemTime_lt(libIn.b, libIn.a),
                  lt_bc |-> SemTime_lt(libIn.b, libIn.c),
                  lt_ac |-> SemTime_lt(libIn.a, libIn.c),
                  eq_ab |-> SemTime_eq(libIn.a, libIn.b)]
    /\ UNCHANGED <<mainVars, libIn>>

\* CourseID::from(text)
FromText ==
    /\ libIn.tag = "from"
    /\ libOut = not_called
    /\ libOut' = [tag |-> "Returned", value |-> CourseID_from(libIn.text)]
    /\ UNCHANGED <<mainVars, libIn>>

\* CourseID::from(format!("{}", id))
FormatAndParse ==
    /\ libIn.tag = "format"
    /\ libOut = not_called
    /\ libOut' = [tag |-> "Returned", text |-> CourseID_fmt(libIn.id),
                  value |-> CourseID_from(CourseID_fmt(libIn.id))]
    /\ UNCHANGED <<mainVars, libIn>>

\* Schedule::add_course(time, coid), twice
AddCourseTwice ==
    /\ libIn.tag = "add_course"
    /\ libOut = not_called
    /\ LET once == Schedule_add_course(libIn.sched, libIn.time, libIn.coid)
       IN  libOut' = [tag |-> "Returned",
                      ok |-> add_course_ok(libIn.sched, libIn.time),
                      sched |-> once,
                      ok_again |-> add_course_ok(once, libIn.time),
                      sched_again |-> Schedule_add_course(once, libIn.time, libIn.coid)]
    /\ UNCHANGED <<mainVars, libIn>>

NextLib ==
    \/ Compare
    \/ FromText
    \/ FormatAndParse
    \/ AddCourseTwice

SpecLib == InitLib /\ [][NextLib]_vars

(***************************************************************************)
(* Properties of the enumeration engine (checked under Spec; C7 under      *)
(* SpecChain)                                                              *)
(***************************************************************************)
\* the position of a semester on the timeline
Pos(t) == CHOOSE i \in DOMAIN Template : Template[i] = t

\* every course of the schedule is in at most one semester
one_semester_each(sched) ==
    \A id \in IDs : Cardinality(times_of(sched, id)) <= 1

\* X is in exactly one semester of out and every prerequisite group of X has
\* a member in a semester strictly before it
monotone(X, out) ==
    /\ Cardinality(times_of(out, X)) = 1
    /\ \A g \in Range(catalog[X].prereqs) :
           \E m \in g : \E t \in times_of(out, m) : \E u \in times_of(out, X) :
               Pos(t) < Pos(u)

\* C1 as stated: every schedule returned by add_course_to_schedule(X, S, cat)
\* holds X in exactly one semester and, for every prerequisite group of X, a
\* member in a strictly earlier semester, whatever the input schedule S is
C1_PlacementMonotonicity ==
    \A i \in DOMAIN perSchedule : \A j \in DOMAIN perSchedule[i] :
        monotone(lastArg, perSchedule[i][j])

\* C1 amended: when X is not in the input schedule S, every schedule returned
\* by add_course_to_schedule(X, S, cat) holds X in exactly one semester and,
\* for every prerequisite group of X, a member in a strictly earlier semester
C1_PlacementMonotonicityOfAbsent ==
    \A i \in DOMAIN perSchedule :
        lastArg \notin courses_of(prevSchedules[i]) =>
            \A j \in DOMAIN perSchedule[i] : monotone(lastArg, perSchedule[i][j])

\* a course with a prerequisite group, absent from the input, was placed
C1_Witness ==
    \E i \in DOMAIN perSchedule :
        /\ lastArg \notin courses_of(prevSchedules[i])
        /\ perSchedule[i] # <<>>
        /\ Len(catalog[lastArg].prereqs) = 2

\* C2: when C has the corequisite group {D}, D is a catalog course and
\* neither is in the input schedule, C and D share a semester in every schedule
\* returned by add_course_to_schedule(C, S, cat)
C2_CorequisitesShareSemester ==
    \A i \in DOMAIN perSchedule : \A D \in IDs :
        ( /\ lastArg \in DOMAIN catalog
          /\ D \in DOMAIN catalog
          /\ D # lastArg
          /\ {D} \in Range(catalog[lastArg].coreqs)
          /\ {lastArg, D} \cap courses_of(prevSchedules[i]) = {} )
        => \A j \in DOMAIN perSchedule[i] :
               /\ times_of(perSchedule[i][j], D) # {}
               /\ times_of(perSchedule[i][j], lastArg) = times_of(perSchedule[i][j], D)

\* the schedule with the semesters of sched, a alone in ta and b alone in tb
with_pair(sched, a, ta, b, tb) ==
    [semesters |->
        [t \in DOMAIN sched.semesters |->
            [courses |-> (IF t = ta THEN {a} ELSE {}) \cup (IF t = tb THEN {b} ELSE {}),
             time |-> t]]]

\* a has no requirements in the catalog
no_requirements(a) ==
    a \in DOMAIN catalog /\ catalog[a].prereqs = <<>> /\ catalog[a].coreqs = <<>>

alternatives_case(i, F, G) ==
    /\ F # G
    /\ lastArg \notin {F, G}
    /\ no_requirements(F)
    /\ no_requirements(G)
    /\ lastArg \in DOMAIN catalog
    /\ catalog[lastArg].prereqs = <<{F, G}>>
    /\ catalog[lastArg].coreqs = <<>>
    /\ Cardinality(DOMAIN prevSchedules[i].semesters) >= 2
    /\ {lastArg, F, G} \cap courses_of(prevSchedules[i]) = {}

C5_UnknownCourse ==
    (lastArg \in IDs /\ lastArg \notin DOMAIN catalog) =>
        /\ \A i \in DOMAIN perSchedule : perSchedule[i] = <<>>
        /\ schedules = <<>>

\* an unknown course was asked for on a schedule that holds it
C5_Witness ==
    /\ lastArg \in IDs
    /\ lastArg \notin DOMAIN catalog
    /\ \E i \in DOMAIN prevSchedules :
           /\ lastArg \in courses_of(prevSchedules[i])
           /\ DOMAIN perSchedule = DOMAIN prevSchedules

\* X and all members of all its requirement groups are in the schedule
all_present(X, sched) ==
    /\ X \in courses_of(sched)
    /\ X \in DOMAIN catalog =>
           prereq_members(catalog[X]) \cup coreq_members(catalog[X])
               \subseteq courses_of(sched)

\* C6: when X and every member of every requirement group of X are in S, every
\* schedule returned by add_course_to_schedule(X, S, cat) equals S; and
\* try_add(X, t, S) returns S unchanged, for every t, when X is in S
C6_NoOpPlacement ==
    /\ \A i \in DOMAIN perSchedule :
           all_present(lastArg, prevSchedules[i]) =>
               \A j \in DOMAIN perSchedule[i] : perSchedule[i][j] = prevSchedules[i]
    /\ (tryIn.tag = "Called" /\ tryIn.coid \in courses_of(tryIn.sched)) =>
           (tryOut.tag = "Some" /\ tryOut.value = tryIn.sched)

\* a scheduled course with requirements, all of them scheduled, was asked for
\* again and schedules were returned
C6_Witness ==
    \E i \in DOMAIN perSchedule :
        /\ all_present(lastArg, prevSchedules[i])
        /\ perSchedule[i] # <<>>
        /\ prereq_members(catalog[lastArg]) # {}
        /\ coreq_members(catalog[lastArg]) # {}

\* C7: when every course of the input schedules is in at most one semester, so
\* is every course of every schedule get_schedules returns, argument after
\* argument
C7_AtMostOneSemester ==
    (\A i \in DOMAIN prevSchedules : one_semester_each(prevSchedules[i])) =>
        /\ \A i \in DOMAIN schedules : one_semester_each(schedules[i])
        /\ \A i \in DOMAIN perSchedule : \A j \in DOMAIN perSchedule[i] :
               one_semester_each(perSchedule[i][j])

\* a second argument, already scheduled in a candidate, was processed and
\* schedules were returned
C7_Witness ==
    /\ nargs = 2
    /\ lastArg \in IDs
    /\ \E i \in DOMAIN perSchedule :
           /\ perSchedule[i] # <<>>
           /\ lastArg \in courses_of(prevSchedules[i])

(***************************************************************************)
(* Properties of try_add (checked under Spec)                              *)
(***************************************************************************)
\* try_add was called for a catalog course that is not in the schedule
try_add_of_absent ==
    /\ tryIn.tag = "Called"
    /\ tryIn.coid \in DOMAIN catalog
    /\ tryIn.coid \notin courses_of(tryIn.sched)

\* the members of a group that are in the schedule
scheduled_of(g, sched) == {m \in g : times_of(sched, m) # {}}

\* the members of a group that are in the semester at sem
at_target(g, sched, sem) == {m \in g : sem \in times_of(sched, m)}

\* C14: in try_add(id, target_time, schedule) for an id not in the schedule,
\* a corequisite group without a scheduled member imposes no constraint, a
\* group with scheduled members but none at target_time makes the placement
\* fail, and so does a group with one member at target_time and another
\* member at a different time
C14_CorequisiteCheck ==
    try_add_of_absent =>
        LET S      == tryIn.sched
            sem    == tryIn.sem
            course == catalog[tryIn.coid]
            groups == Range(course.coreqs)
        IN  /\ ( /\ \A g \in groups : scheduled_of(g, S) = {}
                 /\ course.prereqs = <<>> ) => tryOut.tag = "Some"
            /\ (\E g \in groups : /\ scheduled_of(g, S) # {}
                                  /\ at_target(g, S, sem) = {} )
                   => tryOut.tag = "None"
            /\ (\E g \in groups : /\ at_target(g, S, sem) # {}
                                  /\ scheduled_of(g, S) \ at_target(g, S, sem) # {} )
                   => tryOut.tag = "None"

\* one corequisite group passes the check of try_add: no member is scheduled,
\* or a member is in the semester at sem
coreq_pass(g, sched, sem) ==
    scheduled_of(g, sched) = {} \/ at_target(g, sched, sem) # {}

\* a member of the group is in a semester strictly earlier than sem
has_earlier(g, sched, sem) ==
    \E m \in g : \E t \in times_of(sched, m) : Pos(t) < Pos(sem)

\* C15: try_add(id, target_time, schedule) for an id not in the schedule and
\* passing the corequisite check succeeds exactly when every prerequisite
\* group of id has a member in a semester strictly earlier than target_time;
\* the result then is the schedule with id added to the semester at
\* target_time and nothing else changed
C15_PrerequisiteCheck ==
    ( /\ try_add_of_absent
      /\ \A g \in Range(catalog[tryIn.coid].coreqs) :
             coreq_pass(g, tryIn.sched, tryIn.sem) ) =>
        LET S   == tryIn.sched
            sem == tryIn.sem
        IN  /\ (tryOut.tag = "Some") <=>
                   \A g \in Range(catalog[tryIn.coid].prereqs) : has_earlier(g, S, sem)
            /\ tryOut.tag \in {"Some", "None"}
            /\ (tryOut.tag = "Some" /\ sem \in DOMAIN S.semesters) =>
                   /\ DOMAIN tryOut.value.semesters = DOMAIN S.semesters
                   /\ \A t \in DOMAIN S.semesters :
                          /\ tryOut.value.semesters[t].time = S.semesters[t].time
                          /\ tryOut.value.semesters[t].courses =
                                 IF t = sem
                                 THEN S.semesters[t].courses \cup {tryIn.coid}
                                 ELSE S.semesters[t].courses

\* a course was placed whose prerequisite group has a member strictly earlier
\* and a member in the target semester
C15_Witness ==
    /\ try_add_of_absent
    /\ tryOut.tag = "Some"
    /\ tryIn.sem \in DOMAIN tryIn.sched.semesters
    /\ \E g \in Range(catalog[tryIn.coid].prereqs) :
           /\ at_target(g, tryIn.sched, tryIn.sem) # {}
           /\ has_earlier(g, tryIn.sched, tryIn.sem)

\* the corequisite groups of the course asked for last whose members are all
\* unknown to the catalog and absent from the i-th input schedule
unknown_groups(i) ==
    {g \in Range(catalog[lastArg].coreqs) :
        /\ g \cap DOMAIN catalog = {}
        /\ g \cap courses_of(prevSchedules[i]) = {}}

\* C17: on a catalog built by add_course calls, without a prerequisite cycle,
\* add_course_to_schedule returns a sequence for every schedule and every
\* course: the unwrap of try_add is reached for catalog keys only and no call
\* recurses without bound; a requirement that is not in the catalog
\* contributes no schedule
C17_EngineNeverPanics ==
    /\ pc \notin {"Panic", "Unbounded"}
    /\ lastArg \in IDs => DOMAIN perSchedule = DOMAIN prevSchedules
    /\ (lastArg \in IDs /\ lastArg \in DOMAIN catalog) =>
           \A i \in DOMAIN perSchedule :
               unknown_groups(i) # {} => perSchedule[i] = <<>>

\* a catalog course with an unknown corequisite was asked for on a schedule
\* of NumSems semesters that holds neither
C17_Witness ==
    /\ lastArg \in IDs
    /\ lastArg \in DOMAIN catalog
    /\ \E i \in DOMAIN perSchedule :
           /\ unknown_groups(i) # {}
           /\ lastArg \notin courses_of(prevSchedules[i])
           /\ Cardinality(DOMAIN prevSchedules[i].semesters) = NumSems
           /\ perSchedule[i] = <<>>

(***************************************************************************)
(* Properties of the engine on cyclic catalogs (checked under SpecCyclic)  *)
(***************************************************************************)
\* the ways to go round the courses of K, each once
rounds(K) ==
    {p \in [1..Cardinality(K) -> K] : \A i, j \in DOMAIN p : i # j => p[i] # p[j]}

\* the course after the i-th of a round
next_of(p, i) == p[(i % Len(p)) + 1]

\* the courses of K form a cycle of prerequisite references
prereq_cycle(K) ==
    /\ K # {}
    /\ K \subseteq DOMAIN catalog
    /\ \E p \in rounds(K) :
           \A i \in DOMAIN p : next_of(p, i) \in prereq_members(catalog[p[i]])

\* the courses of K form a cycle of prerequisite references in which every
\* course names the next one in its first prerequisite group
first_group_cycle(K) ==
    /\ K # {}
    /\ K \subseteq DOMAIN catalog
    /\ \E p \in rounds(K) :
           \A i \in DOMAIN p :
               /\ catalog[p[i]].prereqs # <<>>
               /\ next_of(p, i) \in catalog[p[i]].prereqs[1]

\* C18 as stated: when the catalog has a cycle of prerequisite references and
\* no course of the cycle is in the schedule, add_course_to_schedule on a
\* course of the cycle recurses without bound and never returns
C18_CyclesDoNotTerminate ==
    \A K \in SUBSET IDs :
        ( /\ lastArg \in K
          /\ prereq_cycle(K)
          /\ \A i \in DOMAIN prevSchedules :
                 K \cap courses_of(prevSchedules[i]) = {} )
        => pc = "Unbounded"

\* C18 amended: when every course of the cycle names the next one in its
\* first prerequisite group and no course of the cycle is in the schedule,
\* add_course_to_schedule on a course of the cycle recurses without bound and
\* never returns
C18_FirstGroupCyclesDoNotTerminate ==
    \A K \in SUBSET IDs :
        ( /\ lastArg \in K
          /\ first_group_cycle(K)
          /\ \A i \in DOMAIN prevSchedules :
                 K \cap courses_of(prevSchedules[i]) = {} )
        => pc = "Unbounded"

\* a course of a cycle of two courses was asked for on a schedule of NumSems
\* semesters that holds another course, and the call did not return
C18_Witness ==
    /\ pc = "Unbounded"
    /\ \E K \in SUBSET IDs :
           /\ Cardinality(K) = 2
           /\ lastArg \in K
           /\ first_group_cycle(K)
           /\ \A i \in DOMAIN prevSchedules :
                  /\ K \cap courses_of(prevSchedules[i]) = {}
                  /\ courses_of(prevSchedules[i]) # {}
                  /\ Cardinality(DOMAIN prevSchedules[i].semesters) = NumSems

(***************************************************************************)
(* Properties of the command line loop (checked under SpecChain) and of    *)
(* self-placement (checked under Spec)                                     *)
(***************************************************************************)
\* the first argument was skipped: the candidates before the second argument
\* are the one schedule without courses that main started with
first_skipped ==
    /\ nargs = 2
    /\ Len(prevSchedules) = 1
    /\ courses_of(prevSchedules[1]) = {}

\* C19: an argument for which CourseID::from returns no value leaves the
\* candidate schedules as they are, and the loop goes on: every later
\* argument is still processed against them
C19_UnparseableSkipped ==
    /\ (nargs > 0 /\ lastArg = unparseable) =>
           /\ schedules = prevSchedules
           /\ pc = "args"
           /\ nargs <= argc
    /\ (first_skipped /\ lastArg \in IDs) =>
           /\ DOMAIN perSchedule = DOMAIN prevSchedules
           /\ schedules = Flatten(perSchedule)
           /\ no_requirements(lastArg) =>
                  Len(schedules) = Cardinality(DOMAIN prevSchedules[1].semesters)
           /\ lastArg \in DOMAIN catalog =>
                  \A i \in DOMAIN schedules : lastArg \in courses_of(schedules[i])

\* after an unparseable first argument, a course given as second argument
\* was placed on the schedule main started with
C19_Witness ==
    /\ first_skipped
    /\ lastArg \in IDs
    /\ schedules # <<>>
    /\ DOMAIN prevSchedules[1].semesters # {}

\* the k-th semester of a schedule in chronological order
kth_semester(sched, k) ==
    CHOOSE t \in DOMAIN sched.semesters :
        Cardinality({u \in DOMAIN sched.semesters : Pos(u) < Pos(t)}) = k - 1

\* C20: for a catalog course X without requirement groups that is absent from
\* a schedule S of n semesters t1 < ... < tn, add_course_to_schedule(X, S,
\* catalog) returns exactly n schedules, the i-th being S with X added to ti:
\* pairwise distinct and ordered by the semester of X
C20_SelfPlacementOrder ==
    \A i \in DOMAIN perSchedule :
        ( /\ lastArg \in IDs
          /\ no_requirements(lastArg)
          /\ lastArg \notin courses_of(prevSchedules[i]) )
        => LET S == prevSchedules[i]
               n == Cardinality(DOMAIN S.semesters)
           IN  /\ Len(perSchedule[i]) = n
               /\ \A k \in 1..n :
                      perSchedule[i][k] =
                          [semesters |->
                              [t \in DOMAIN S.semesters |->
                                  [courses |-> IF t = kth_semester(S, k)
                                               THEN S.semesters[t].courses \cup {lastArg}
                                               ELSE S.semesters[t].courses,
                                   time |-> S.semesters[t].time]]]
               /\ \A j, k \in 1..n : j # k => perSchedule[i][j] # perSchedule[i][k]

\* a course without requirements was placed in each of the NumSems semesters
\* of a schedule that holds other courses
C20_Witness ==
    \E i \in DOMAIN perSchedule :
        /\ lastArg \in IDs
        /\ no_requirements(lastArg)
        /\ lastArg \notin courses_of(prevSchedules[i])
        /\ courses_of(prevSchedules[i]) # {}
        /\ Len(perSchedule[i]) = NumSems
        /\ NumSems >= 2

(***************************************************************************)
(* Properties of the catalog (checked under SpecCat)                       *)
(***************************************************************************)
\* the prerequisites of the record added last that were no key before the
\* call and are not the added course itself
new_prereqs ==
    prereq_members(lastAdded.course)
        \ (DOMAIN prevCatalog \cup {lastAdded.course.coid})

\* C8: every member of every prerequisite group of every stored course is a
\* key of the catalog, and a prerequisite that was no key before the last
\* add_course call is stored as a placeholder: a course without name,
\* description and requirements
C8_CatalogClosure ==
    /\ \A k \in DOMAIN catalog : prereq_members(catalog[k]) \subseteq DOMAIN catalog
    /\ lastAdded.tag = "Called" =>
           \A p \in new_prereqs :
               /\ p \in DOMAIN catalog
               /\ [catalog[p] EXCEPT !.post_options = {}] = Course_new(p)

\* a call created a placeholder, and a call added a course that lists itself
C8_Witness ==
    /\ lastAdded.tag = "Called"
    /\ new_prereqs # {}
    /\ \E k \in DOMAIN catalog : k \in prereq_members(catalog[k])

\* C9: after add_course(C), every member P of a prerequisite group of C has
\* C in its post_options
C9_BackReferences ==
    lastAdded.tag = "Called" =>
        \A P \in prereq_members(lastAdded.course) :
            /\ P \in DOMAIN catalog
            /\ lastAdded.course.coid \in catalog[P].post_options

\* C10: after add_course with a record whose CourseID was a key already, the
\* stored record has the name, description, prereqs and coreqs of the new
\* record and the post_options the old record had: every old back-reference
\* is kept and the post_options of the new record are dropped
C10_Reinsertion ==
    (lastAdded.tag = "Called" /\ lastAdded.course.coid \in DOMAIN prevCatalog) =>
        LET new    == lastAdded.course
            old    == prevCatalog[new.coid]
            stored == catalog[new.coid]
        IN  /\ stored.name = new.name
            /\ stored.description = new.description
            /\ stored.prereqs = new.prereqs
            /\ stored.coreqs = new.coreqs
            /\ old.post_options \subseteq stored.post_options
            /\ stored.post_options \subseteq old.post_options

\* a course with back-references was added again under another name, with
\* other post_options
C10_Witness ==
    /\ lastAdded.tag = "Called"
    /\ lastAdded.course.coid \in DOMAIN prevCatalog
    /\ prevCatalog[lastAdded.course.coid].post_options # {}
    /\ lastAdded.course.post_options # {}
    /\ lastAdded.course.post_options
           # prevCatalog[lastAdded.course.coid].post_options
    /\ lastAdded.course.name # prevCatalog[lastAdded.course.coid].name

(***************************************************************************)
(* Properties of the library functions (checked under SpecLib)             *)
(***************************************************************************)
\* C11: SemTime is a strict total order consistent with equality: exactly one
\* of a < b, a == b, b < a holds, the order is transitive, a smaller year is
\* before, within a year Spring < Summer < Fall; Spring(2020) < Summer(2020)
\* < Fall(2020) < Spring(2021), and the eight-semester template is strictly
\* increasing
C11_SemTimeTotalOrder ==
    /\ \A i \in DOMAIN Template : \A j \in DOMAIN Template :
           i < j => SemTime_lt(Template[i], Template[j])
    /\ (libIn.tag = "cmp" /\ libOut.tag = "Returned") =>
           LET a == libIn.a
               b == libIn.b
           IN  /\ Cardinality({k \in 1..3 :
                       <<libOut.lt_ab, libOut.eq_ab, libOut.lt_ba>>[k]}) = 1
               /\ libOut.eq_ab <=> (libOut.ab = "Equal")
               /\ libOut.eq_ab <=> (a.season = b.season /\ a.year = b.year)
               /\ (libOut.ab = "Less") <=> (libOut.ba = "Greater")
               /\ (libOut.lt_ab /\ libOut.lt_bc) => libOut.lt_ac
               /\ a.year < b.year => libOut.lt_ab
               /\ ( /\ a.year = b.year
                    /\ <<a.season, b.season>> \in
                           {<<"Spring", "Summer">>, <<"Summer", "Fall">>,
                            <<"Spring", "Fall">>} ) => libOut.lt_ab
               /\ <<a, b>> \in {<<Spring(2020), Summer(2020)>>,
                                <<Summer(2020), Fall(2020)>>,
                                <<Fall(2020), Spring(2021)>>} => libOut.lt_ab

\* three semesters of two years were compared, each before the next
C11_Witness ==
    /\ libIn.tag = "cmp"
    /\ libOut.tag = "Returned"
    /\ libIn.a = Summer(2020)
    /\ libIn.b = Fall(2020)
    /\ libIn.c = Spring(2021)
    /\ libOut.lt_ab
    /\ libOut.lt_bc
    /\ libOut.lt_ac

\* C12: for every valid CourseID id (a subject of 4 letters A-Z, a code from
\* 0 to 9999, also below 1000), CourseID::from of the text "{subject} {code}"
\* that format renders returns Some(id)
C12_RoundTrip ==
    (libIn.tag = "format" /\ libOut.tag = "Returned") =>
        libOut.value = Some(libIn.id)

Capitals ==
    {"A", "B", "C", "D", "E", "F", "G", "H", "I", "J", "K", "L", "M", "N", "O",
     "P", "Q", "R", "S", "T", "U", "V", "W", "X", "Y", "Z"}

Digits == {"0", "1", "2", "3", "4", "5", "6", "7", "8", "9"}

\* the text has 8 or 9 characters, the first 4 are capitals and the last 4
\* are digits
well_formed(text) ==
    /\ Len(text) \in {8, 9}
    /\ \A i \in 1..4 : text[i] \in Capitals
    /\ \A i \in (Len(text) - 3)..Len(text) : text[i] \in Digits

\* C13: CourseID::from(text) returns a value exactly when the text has 8 or 9
\* characters, its first 4 are in A-Z and its last 4 are numeric; the value
\* has the first 4 characters as subject and the number the last 4 write as
\* code; every other text gives no value
C13_ParseAcceptsWellFormed ==
    (libIn.tag = "from" /\ libOut.tag = "Returned") =>
        LET text == libIn.text
        IN  /\ is_some(libOut.value) <=> well_formed(text)
            /\ well_formed(text) =>
                   libOut.value =
                       Some([subj |-> SubSeq(text, 1, 4),
                             code |-> decimal_value(
                                          SubSeq(text, Len(text) - 3, Len(text)))])

\* C16: Schedule::add_course(time, id) returns false and leaves the schedule
\* as it is when it has no semester at time; otherwise it returns true and the
\* schedule differs only by id being in the semester at time, and a second
\* call with the same arguments returns true and changes nothing
C16_AddCourse ==
    (libIn.tag = "add_course" /\ libOut.tag = "Returned") =>
        LET S  == libIn.sched
            t  == libIn.time
            S1 == libOut.sched
        IN  /\ t \notin DOMAIN S.semesters => (~libOut.ok /\ S1 = S)
            /\ t \in DOMAIN S.semesters =>
                   /\ libOut.ok
                   /\ DOMAIN S1.semesters = DOMAIN S.semesters
                   /\ \A u \in DOMAIN S.semesters \ {t} :
                          S1.semesters[u] = S.semesters[u]
                   /\ S1.semesters[t].time = S.semesters[t].time
                   /\ S1.semesters[t].courses =
                          S.semesters[t].courses \cup {libIn.coid}
                   /\ libOut.ok_again
                   /\ libOut.sched_again = S1

\* a course was added to a semester that held another course
C16_Witness ==
    /\ libIn.tag = "add_course"
    /\ libOut.tag = "Returned"
    /\ libIn.time \in DOMAIN libIn.sched.semesters
    /\ libIn.sched.semesters[libIn.time].courses # {}
    /\ libIn.coid \notin libIn.sched.semesters[libIn.time].courses
    /\ libOut.ok

(***************************************************************************)
(* Properties of the requirement loops of the engine (checked under Spec,   *)
(* C23 and C24 under SpecEdge)                                             *)
(***************************************************************************)
\* the schedule S with X added to the semester at t and nothing else changed
placed_at(S, X, t) ==
    [semesters |->
        [u \in DOMAIN S.semesters |->
            [courses |-> S.semesters[u].courses \cup (IF u = t THEN {X} ELSE {}),
             time |-> S.semesters[u].time]]]

\* the number of positions of a sequence that hold v
count_of(seq, v) == Cardinality({j \in DOMAIN seq : seq[j] = v})

\* the course asked for last is a catalog course absent from the i-th input
\* schedule, with exactly one prerequisite group, all members of which are in
\* that schedule
single_group_present(i) ==
    /\ lastArg \in DOMAIN catalog
    /\ lastArg \notin courses_of(prevSchedules[i])
    /\ Len(catalog[lastArg].prereqs) = 1
    /\ catalog[lastArg].prereqs[1] \subseteq courses_of(prevSchedules[i])

\* C21 as stated: when X is absent from S and the single prerequisite group of
\* X has k members, all in S, every placement of X that try_add accepts is
\* k times in the result of add_course_to_schedule(X, S, cat), and the result
\* holds nothing but such placements (no other course is added)
C21_PassThroughCopies ==
    \A i \in DOMAIN perSchedule :
        single_group_present(i) =>
            LET S == prevSchedules[i]
                k == Cardinality(catalog[lastArg].prereqs[1])
                valid == {t \in DOMAIN S.semesters :
                             try_add(S, lastArg, t, catalog, hashOrder).tag = "Some"}
            IN  /\ \A t \in valid :
                       count_of(perSchedule[i], placed_at(S, lastArg, t)) = k
                /\ Range(perSchedule[i]) = {placed_at(S, lastArg, t) : t \in valid}

\* C21 amended: when moreover X has no corequisite group, the result of
\* add_course_to_schedule(X, S, cat) holds k times the schedule S with X
\* added to t, for every semester t of S that a member of the group precedes,
\* and nothing else
C21_PassThroughCopiesNoCoreqs ==
    \A i \in DOMAIN perSchedule :
        (single_group_present(i) /\ catalog[lastArg].coreqs = <<>>) =>
            LET S == prevSchedules[i]
                g == catalog[lastArg].prereqs[1]
                valid == {t \in DOMAIN S.semesters : has_earlier(g, S, t)}
            IN  /\ \A t \in valid :
                       count_of(perSchedule[i], placed_at(S, lastArg, t)) =
                           Cardinality(g)
                /\ Range(perSchedule[i]) = {placed_at(S, lastArg, t) : t \in valid}
                /\ Len(perSchedule[i]) = Cardinality(g) * Cardinality(valid)

\* a course without corequisites whose prerequisite group has two members,
\* both scheduled, was placed
C21_Witness ==
    \E i \in DOMAIN perSchedule :
        /\ single_group_present(i)
        /\ catalog[lastArg].coreqs = <<>>
        /\ Cardinality(catalog[lastArg].prereqs[1]) = 2
        /\ Len(perSchedule[i]) = 2

\* the members of the requirement groups of a course, none for a course that
\* is not in the catalog
requirements_of(c) ==
    IF c \in DOMAIN catalog
    THEN prereq_members(catalog[c]) \cup coreq_members(catalog[c])
    ELSE {}

RECURSIVE reachable_from(_)
\* the courses of K and those reachable from them through prerequisite and
\* corequisite groups of the catalog
reachable_from(K) ==
    LET more == K \cup UNION {requirements_of(c) : c \in K}
    IN  IF more = K THEN K ELSE reachable_from(more)

\* every iteration order of the CourseIDs: a group is iterated in the order
\* its members have in one of them
IterationOrders ==
    {p \in [DOMAIN Listing -> IDs] : \A i, j \in DOMAIN p : i # j => p[i] # p[j]}

\* two sequences hold the same elements the same number of times
same_multiset(a, b) ==
    \A v \in Range(a) \cup Range(b) : count_of(a, v) = count_of(b, v)

\* add_course_to_schedule for the course asked for last on the i-th input
\* schedule, with the groups iterated in the order ord
result_in_order(i, ord) ==
    add_course_to_schedule(lastArg, prevSchedules[i], catalog, ord, {})

\* the requirement groups of the courses a call for the last argument can
\* come to
groups_in_reach ==
    UNION {Range(catalog[c].prereqs) \cup Range(catalog[c].coreqs) :
              c \in reachable_from({lastArg}) \cap DOMAIN catalog}

\* ord iterates one of these groups in another order than the call made
reordered(ord) ==
    \E g \in groups_in_reach : iter(g, ord) # iter(g, hashOrder)

\* the ways to iterate these groups: the sequence of each group, for every
\* iteration order
iterations == {[g \in groups_in_reach |-> iter(g, ord)] : ord \in IterationOrders}

\* an iteration order that iterates these groups that way
order_of(way) ==
    CHOOSE ord \in IterationOrders : \A g \in groups_in_reach : iter(g, ord) = way[g]

\* C23: the schedules add_course_to_schedule(X, S, cat) returns are the same,
\* each the same number of times, for every iteration order of the members of
\* the prerequisite and corequisite groups (so two calls with equal arguments
\* return equal multisets, the iteration order being all that can differ)
C23_OrderIndependence ==
    lastArg \in IDs =>
        \A way \in iterations :
            reordered(order_of(way)) =>
                \A i \in DOMAIN perSchedule :
                    \E other \in {result_in_order(i, order_of(way))} :
                        /\ other.tag = "Ok"
                        /\ same_multiset(other.value, perSchedule[i])

\* a call returned the same schedules in a different sequence for another
\* iteration order
C23_Witness ==
    /\ lastArg \in IDs
    /\ \E i \in DOMAIN perSchedule : \E ord \in IterationOrders :
           /\ reordered(ord)
           /\ Len(perSchedule[i]) >= 2
           /\ result_in_order(i, ord) # Ok(perSchedule[i])
           /\ result_in_order(i, ord).tag = "Ok"

\* out has the semester keys of S, every course of S in the semester it had in
\* S, and beyond those of S only courses reachable from X
extends(S, out, X) ==
    /\ DOMAIN out.semesters = DOMAIN S.semesters
    /\ \A t \in DOMAIN S.semesters :
           /\ out.semesters[t].time = S.semesters[t].time
           /\ S.semesters[t].courses \subseteq out.semesters[t].courses
           /\ out.semesters[t].courses \ courses_of(S) \subseteq reachable_from({X})
           /\ out.semesters[t].courses \cap courses_of(S) = S.semesters[t].courses

\* every schedule returned for the last argument extends its input schedule
outputs_extend ==
    \A i \in DOMAIN perSchedule : \A j \in DOMAIN perSchedule[i] :
        extends(prevSchedules[i], perSchedule[i][j], lastArg)

\* C24: a call of get_schedules leaves the catalog and the schedules it is
\* given as they are, and every schedule add_course_to_schedule(X, S, cat)
\* returns has exactly the semester keys of S, every course of S in the
\* semester it had in S, and beyond the courses of S only X and courses
\* reachable from X through prerequisite or corequisite groups of the catalog
C24_OutputsExtendInput ==
    [][nargs' # nargs =>
          /\ catalog' = catalog
          /\ prevSchedules' = schedules
          /\ outputs_extend']_vars

\* a schedule was returned that holds, beyond the courses of a non-empty
\* input schedule, the course asked for and a requirement of it
C24_Witness ==
    \E i \in DOMAIN perSchedule : \E j \in DOMAIN perSchedule[i] :
        /\ courses_of(prevSchedules[i]) # {}
        /\ lastArg \in courses_of(perSchedule[i][j]) \ courses_of(prevSchedules[i])
        /\ courses_of(perSchedule[i][j]) \ (courses_of(prevSchedules[i]) \cup {lastArg}) # {}

\* the courses of out that are not in S
added_to(S, out) == courses_of(out) \ courses_of(S)

\* in out, every prerequisite group of c has a member in a semester strictly
\* before every semester of c
prereqs_precede(c, out) ==
    /\ c \in DOMAIN catalog
    /\ \A g \in Range(catalog[c].prereqs) :
           \E m \in g : \E t \in times_of(out, m) :
               \A u \in times_of(out, c) : Pos(t) < Pos(u)

\* C25: in every schedule returned by add_course_to_schedule(X, S, cat), every
\* course that is in the output and not in S (X and every requirement added
\* for it) has, for each of its own prerequisite groups, a member in a strictly
\* earlier semester
C25_AddedCoursesSound ==
    \A i \in DOMAIN perSchedule : \A j \in DOMAIN perSchedule[i] :
        \A c \in added_to(prevSchedules[i], perSchedule[i][j]) :
            prereqs_precede(c, perSchedule[i][j])

\* a schedule was returned with a course other than the one asked for that was
\* added for it and has a prerequisite group of its own
C25_Witness ==
    \E i \in DOMAIN perSchedule : \E j \in DOMAIN perSchedule[i] :
        \E c \in added_to(prevSchedules[i], perSchedule[i][j]) \ {lastArg} :
            /\ lastArg \in added_to(prevSchedules[i], perSchedule[i][j])
            /\ catalog[c].prereqs # <<>>

\* D is named in a corequisite group of C, and C in a prerequisite group of D
mixed_cycle(C, D) ==
    /\ {C, D} \subseteq DOMAIN catalog
    /\ D \in coreq_members(catalog[C])
    /\ C \in prereq_members(catalog[D])

\* C and D name each other in corequisite groups
coreq_cycle(C, D) ==
    /\ {C, D} \subseteq DOMAIN catalog
    /\ C # D
    /\ D \in coreq_members(catalog[C])
    /\ C \in coreq_members(catalog[D])

\* C26: on a catalog whose prerequisite relation has no cycle, every call of
\* add_course_to_schedule returns, for every course and every schedule, also
\* when corequisite groups are cyclic or a cycle mixes prerequisite and
\* corequisite references: no call is made again with the arguments of a call
\* in progress, and the driver gets a result for each of its schedules
C26_TerminationOnAcyclicPrereqs ==
    /\ pc # "Unbounded"
    /\ lastArg \in IDs => Len(perSchedule) = Len(prevSchedules)

\* a course of a cycle that mixes a prerequisite and a corequisite reference
\* was asked for on a schedule holding no course of the cycle, and schedules
\* were returned
C26_Witness ==
    \E i \in DOMAIN perSchedule : \E D \in IDs :
        /\ lastArg \in IDs
        /\ mixed_cycle(lastArg, D) \/ mixed_cycle(D, lastArg)
        /\ {lastArg, D} \cap courses_of(prevSchedules[i]) = {}
        /\ perSchedule[i] # <<>>

\* C has the single corequisite group {D}, D the single corequisite group
\* {C}, both are catalog courses without prerequisites and neither is in the
\* i-th input schedule
symmetric_coreqs(i, C, D) ==
    /\ C # D
    /\ {C, D} \subseteq DOMAIN catalog
    /\ catalog[C].coreqs = <<{D}>>
    /\ catalog[D].coreqs = <<{C}>>
    /\ catalog[C].prereqs = <<>>
    /\ catalog[D].prereqs = <<>>
    /\ {C, D} \cap courses_of(prevSchedules[i]) = {}

\* C27: in that case C and D are in the same semester in every schedule
\* returned by add_course_to_schedule(C, S, cat), and there is exactly one
\* returned schedule per semester of S: S with C and D added to it
C27_SymmetricCoreqs ==
    \A i \in DOMAIN perSchedule : \A D \in IDs :
        (lastArg \in IDs /\ symmetric_coreqs(i, lastArg, D)) =>
            LET S == prevSchedules[i]
            IN  /\ \A j \in DOMAIN perSchedule[i] :
                       /\ times_of(perSchedule[i][j], lastArg) # {}
                       /\ times_of(perSchedule[i][j], lastArg) =
                              times_of(perSchedule[i][j], D)
                /\ Len(perSchedule[i]) = Cardinality(DOMAIN S.semesters)
                /\ \A t \in DOMAIN S.semesters :
                       count_of(perSchedule[i],
                                placed_at(placed_at(S, lastArg, t), D, t)) = 1

\* the course of a symmetric pair was asked for on a schedule of NumSems
\* semesters and as many schedules were returned
C27_Witness ==
    \E i \in DOMAIN perSchedule : \E D \in IDs :
        /\ lastArg \in IDs
        /\ symmetric_coreqs(i, lastArg, D)
        /\ Cardinality(DOMAIN prevSchedules[i].semesters) = NumSems
        /\ Len(perSchedule[i]) = NumSems

(***************************************************************************)
(* Properties of the engine on schedules without semesters (C28 checked    *)
(* under SpecCyclic, C29 under SpecChain)                                  *)
(***************************************************************************)
\* the input schedules of the last call that have no semester
without_semesters ==
    {i \in DOMAIN prevSchedules : DOMAIN prevSchedules[i].semesters = {}}

\* the call for the last argument returned, with no schedule for the input
\* schedules that have no semester
empty_for_empty ==
    /\ pc = "args"
    /\ Len(perSchedule) = Len(prevSchedules)
    /\ \A i \in without_semesters : perSchedule[i] = <<>>

\* C28 as stated: for a schedule with zero semesters (Schedule::new(), the
\* starting schedule of the driver when no schedule document is read)
\* add_course_to_schedule returns the empty sequence for every course and
\* every catalog
C28_NoSemestersNoPlacement ==
    (lastArg \in IDs /\ without_semesters # {}) => empty_for_empty

\* C28 amended: for a schedule with zero semesters add_course_to_schedule
\* returns the empty sequence for every course and every catalog without a
\* cycle of prerequisite references
C28_NoSemestersNoPlacementAcyclic ==
    ( /\ lastArg \in IDs
      /\ without_semesters # {}
      /\ \A K \in SUBSET IDs : ~prereq_cycle(K) ) => empty_for_empty

\* a course with a prerequisite group, of a catalog without a prerequisite
\* cycle, was asked for on the schedule without semesters and the call
\* returned
C28_Witness ==
    /\ lastArg \in IDs
    /\ without_semesters # {}
    /\ \A K \in SUBSET IDs : ~prereq_cycle(K)
    /\ catalog[lastArg].prereqs # <<>>
    /\ empty_for_empty

\* the number of schedules returned for the input schedules before the i-th
offset(i) == SumLen(SubSeq(perSchedule, 1, i - 1))

\* the candidate schedules are the concatenation, in input order, of what
\* add_course_to_schedule returned for each input schedule
concatenated ==
    /\ Len(perSchedule) = Len(prevSchedules)
    /\ \A i \in DOMAIN perSchedule :
           add_course_to_schedule(lastArg, prevSchedules[i], catalog, hashOrder, {})
               = Ok(perSchedule[i])
    /\ Len(schedules) = SumLen(perSchedule)
    /\ \A i \in DOMAIN perSchedule : \A j \in DOMAIN perSchedule[i] :
           schedules[offset(i) + j] = perSchedule[i][j]

\* C29: get_schedules(c, cat, schedules) is the concatenation, in input order,
\* of add_course_to_schedule(c, s, cat) over the input schedules s, and once
\* there is no candidate schedule before an argument of main's loop there is
\* none after it
C29_EmptyIsAbsorbing ==
    /\ (lastArg \in IDs /\ pc = "args") => concatenated
    /\ (nargs >= 1 /\ prevSchedules = <<>>) => schedules = <<>>

\* a second argument, a catalog course without requirements, was handled
\* when the first had left no candidate schedule
C29_Witness ==
    /\ nargs = 2
    /\ lastArg \in IDs
    /\ no_requirements(lastArg)
    /\ prevSchedules = <<>>
    /\ schedules = <<>>

(***************************************************************************)
(* Properties of the catalog on load (checked under SpecCat)               *)
(***************************************************************************)
\* the last call of Catalog::add_course was made for a CourseID that was not
\* a key of the catalog
added_new_key ==
    /\ lastAdded.tag = "Called"
    /\ lastAdded.course.coid \notin DOMAIN prevCatalog

\* C22: after Catalog::add_course(C) for a CourseID that was not a key before
\* the call, the catalog is the one the call gives for the same record with
\* any other post_options field: the stored post_options of C does not depend
\* on the post_options of the input record
C22_InputBackReferencesIgnored ==
    added_new_key =>
        \A po \in SUBSET IDs :
            Catalog_add_course(prevCatalog,
                               [lastAdded.course EXCEPT !.post_options = po],
                               hashOrder) = catalog

(***************************************************************************)
(* Properties of the planner on a catalog built by add_course calls        *)
(* (checked under SpecLoad)                                                *)
(***************************************************************************)
\* the keys of the catalog after the last Catalog::add_course: those before
\* it, the course added and the members of its prerequisite groups
keys_from_prereqs_only ==
    lastAdded.tag = "Called" =>
        DOMAIN catalog = DOMAIN prevCatalog \cup {lastAdded.course.coid}
                             \cup prereq_members(lastAdded.course)

\* the call for the last argument returned, with no schedule for the input
\* schedules that hold no member of a corequisite group of the course whose
\* members are all unknown to the catalog
empty_for_unknown_coreqs ==
    \A i \in DOMAIN prevSchedules :
        unknown_groups(i) # {} =>
            /\ pc = "args"
            /\ Len(perSchedule) = Len(prevSchedules)
            /\ perSchedule[i] = <<>>

\* C30 as stated: Catalog::add_course creates placeholder courses for members
\* of prerequisite groups only, never for members of corequisite groups, and
\* add_course_to_schedule(X, S, cat) returns the empty sequence when X has a
\* corequisite group none of whose members is in S or a catalog key
C30_CoreqsNotRegistered ==
    /\ keys_from_prereqs_only
    /\ (lastArg \in IDs /\ lastArg \in DOMAIN catalog) => empty_for_unknown_coreqs

\* C30 amended: the same, the empty sequence being returned on a catalog
\* without a cycle of prerequisite references
C30_CoreqsNotRegisteredAcyclic ==
    /\ keys_from_prereqs_only
    /\ ( /\ lastArg \in IDs
         /\ lastArg \in DOMAIN catalog
         /\ \A K \in SUBSET IDs : ~prereq_cycle(K) ) => empty_for_unknown_coreqs

\* a course with a prerequisite and an unknown corequisite, of a catalog
\* without a prerequisite cycle, was asked for on a schedule of NumSems
\* semesters that holds its prerequisite, and no schedule was returned
C30_Witness ==
    /\ lastAdded.tag = "Called"
    /\ lastArg \in IDs
    /\ lastArg \in DOMAIN catalog
    /\ \A K \in SUBSET IDs : ~prereq_cycle(K)
    /\ \E i \in DOMAIN perSchedule :
           /\ unknown_groups(i) # {}
           /\ catalog[lastArg].prereqs # <<>>
           /\ prereq_members(catalog[lastArg]) \subseteq courses_of(prevSchedules[i])
           /\ Cardinality(DOMAIN prevSchedules[i].semesters) = NumSems
           /\ perSchedule[i] = <<>>

====
